---- MODULE Spec2Model ----
(***************************************************************************)
(* Model of teco_e510_inverter_app.py: the TECO E510 inverter driver       *)
(* (class TECO_E510_Inverter) and the ball-mill controller                 *)
(* (class BallMillControl).                                                *)
(*                                                                         *)
(* Units.  Time is counted in whole seconds (datetime/timedelta values).   *)
(* Frequencies held by the application are tenths of a hertz (the          *)
(* spinbox format is %04.1f and the code rounds to one decimal); the       *)
(* frequency register of the drive holds hundredths.  Diameters are        *)
(* tenths of a millimetre.                                                 *)
(*                                                                         *)
(* A handler of the application is one action.  Handlers call one          *)
(* another, so each method is an operator from a working record of the     *)
(* whole program state to the set of records the call can end in, one per  *)
(* outcome of the Modbus exchanges it performs.  The field "raised" of     *)
(* the working record is the Python exception in flight, "io" the          *)
(* exchanges the running handler has performed so far.                     *)
(***************************************************************************)
EXTENDS Integers, Sequences, FiniteSets, TLC

VARIABLES
    inverter,            \* self.inverter: None or the driver object
    device,              \* the drive on the bus: registers 0x2501, 0x2502, nameplate
    com_connect_var,     \* BooleanVar of the Connect toggle
    com_connect_toggle,  \* state of the Connect toggle widget
    online_label,        \* "ONLINE" / "OFFLINE"
    update_task,         \* self.update_task is not None
    pending,             \* number of scheduled start_sampling callbacks
    run_button,          \* widget states: "normal" / "disabled"
    stop_button,
    pause_button,
    hour_spinbox,        \* hour_spinbox and minute_spinbox (always set together)
    motor_forward,       \* motor_forward and motor_reverse radio buttons
    mill_edit_toggle,
    vessel_dia_spinbox,  \* vessel_dia_spinbox and shaft_dia_spinbox
    vessel_rpm_radio,    \* the three control-mode radio buttons
    ctrl_spinbox,        \* which setpoint spinbox is enabled: 0 none, 1 vessel, 2 shaft, 3 frequency
    mill_edit_var,
    pause_var,           \* text of the pause button: "PAUSE" / "RESTART"
    motor_rotation_var,  \* 0 forward, 2 reverse
    hour_var,
    minute_var,
    mill_defined,        \* the globals mill_start_time, mill_stop_time, mill_total_time exist
    mill_start_time,
    mill_stop_time,
    mill_total_time,
    time_elapsed_var,    \* <<>> for '---', else <<h, m, s>>
    time_remain_var,
    mill_progressbar_var, \* progress ratio in thousandths
    message_var,
    mill_radio_var,
    vessel_rpm_var,
    shaft_rpm_var,
    vfd_freq_var,
    mill_dia_var,
    shaft_dia_var,
    motor_freq_var,      \* -1 for '---', else the rated frequency
    now,                 \* datetime.now()
    event,               \* the handler that ran last and the exchanges it performed
    faults,              \* exchanges with a present drive that have failed so far
    restarts             \* RESTART commands issued so far

vars == << inverter, device, com_connect_var, com_connect_toggle, online_label,
           update_task, pending, run_button, stop_button, pause_button,
           hour_spinbox, motor_forward, mill_edit_toggle, vessel_dia_spinbox,
           vessel_rpm_radio, ctrl_spinbox, mill_edit_var, pause_var,
           motor_rotation_var, hour_var, minute_var, mill_defined,
           mill_start_time, mill_stop_time, mill_total_time, time_elapsed_var,
           time_remain_var, mill_progressbar_var, message_var, mill_radio_var,
           vessel_rpm_var, shaft_rpm_var, vfd_freq_var, mill_dia_var,
           shaft_dia_var, motor_freq_var, now, event, faults, restarts >>

-----------------------------------------------------------------------------
(* Bounds of the model *)

\* The clock stops advancing at MaxNow.
MaxNow == 7200

\* At most MaxPending start_sampling callbacks are scheduled at once.
MaxPending == 1

\* At most MaxRestarts RESTART commands are issued in one behaviour (each one
\* can move mill_stop_time further).
MaxRestarts == 1

\* At most MaxFaults exchanges with a present drive fail in one behaviour.
MaxFaults == 1

-----------------------------------------------------------------------------
(* Program constants *)

REG_IDENTITY  == 3328    \* 0x0D00
REG_NAMEPLATE == 512     \* 0x0200
REG_STATUS    == 9507    \* 0x2523
REG_FLAGS     == 9504    \* 0x2520
REG_FREQUENCY == 9474    \* 0x2502
REG_OPERATION == 9473    \* 0x2501

FC_READ  == 3
FC_WRITE == 6

DefaultVesselRpm == 74
DefaultMillDia   == 2200
DefaultShaftDia  == 454
DefaultHour      == 2
DefaultMinute    == 0

SecondsPerDay == 86400

\* The values the model draws for the operator's inputs and the environment.
Steps        == {3600, 7197}                      \* seconds between two events
Durations    == {<<0, 0>>, <<2, 0>>}     \* <<hours, minutes>> of the spinboxes
Rotations    == {0, 2}
VesselInputs == {74, 150}
ShaftInputs  == {300, 900}
FreqInputs   == {-10, 0, 250, 500, 600}
DiaInputs    == {2200, 1000}
Nameplates   == {[motor_frequency |-> 500, motor_poles |-> 8]}
ModelCode    == 510
\* The serial ports discovery finds, by what answers on each: none at all, the
\* drive, a port without a drive before the drive's, a port without a drive, a
\* port that cannot be opened.
PortLists    == {<< >>, <<"drive">>, <<"empty", "drive">>, <<"empty">>, <<"busy">>}

\* self.inverter = None, and a freshly constructed driver object: the attributes
\* model and motor_poles do not exist (-1) until a read has set them.
None        == [open |-> FALSE, model |-> -1, motor_poles |-> -1]
NewInverter == [open |-> TRUE, model |-> -1, motor_poles |-> -1]
Unset == <<>>

-----------------------------------------------------------------------------
(* Arithmetic of the Python built-ins the code uses *)

\* round(n / d) for d > 0: to the nearest integer, ties to the even one.
Round(n, d) ==
    LET q == n \div d
        r == n % d
    IN  IF 2 * r < d THEN q
        ELSE IF 2 * r > d THEN q + 1
        ELSE IF q % 2 = 0 THEN q ELSE q + 1

\* round() of a quotient the code computes in floating point, for d > 0: the
\* nearest integer, and when the exact quotient lies halfway between two
\* integers either of them, since the computed float may lie on either side
\* (round(750 * (2.7 / 50)) is 41, round(750 * (0.1 / 50)) is 2).
Rounds(n, d) ==
    LET q == n \div d
        r == n % d
    IN  IF 2 * r < d THEN {q}
        ELSE IF 2 * r > d THEN {q + 1}
        ELSE {q, q + 1}

\* str(timedelta) parsed by strptime('%H:%M:%S.%f') and printed as %H:%M:%S, for
\* a timedelta of t whole seconds and a fraction: defined for 0 <= t < 1 day
\* only ("-1 day, ..." and "1 day, ..." do not parse).
Formattable(t) == 0 <= t /\ t < SecondsPerDay

FormatHMS(t) == << t \div 3600, (t \div 60) % 60, t % 60 >>

\* timedelta(hours=int(x[0]), minutes=int(x[1]), seconds=int(x[2])) of the split string
ParseHMS(x) == x[1] * 3600 + x[2] * 60 + x[3]

-----------------------------------------------------------------------------
(* The working record of a handler: the program state it started from *)

Cur ==
    [ inverter |-> inverter, device |-> device,
      com_connect_var |-> com_connect_var, com_connect_toggle |-> com_connect_toggle,
      online_label |-> online_label, update_task |-> update_task, pending |-> pending,
      run_button |-> run_button, stop_button |-> stop_button,
      pause_button |-> pause_button, hour_spinbox |-> hour_spinbox,
      motor_forward |-> motor_forward, mill_edit_toggle |-> mill_edit_toggle,
      vessel_dia_spinbox |-> vessel_dia_spinbox, vessel_rpm_radio |-> vessel_rpm_radio,
      ctrl_spinbox |-> ctrl_spinbox, mill_edit_var |-> mill_edit_var,
      pause_var |-> pause_var, motor_rotation_var |-> motor_rotation_var,
      hour_var |-> hour_var, minute_var |-> minute_var,
      mill_defined |-> mill_defined, mill_start_time |-> mill_start_time,
      mill_stop_time |-> mill_stop_time, mill_total_time |-> mill_total_time,
      time_elapsed_var |-> time_elapsed_var, time_remain_var |-> time_remain_var,
      mill_progressbar_var |-> mill_progressbar_var, message_var |-> message_var,
      mill_radio_var |-> mill_radio_var, vessel_rpm_var |-> vessel_rpm_var,
      shaft_rpm_var |-> shaft_rpm_var, vfd_freq_var |-> vfd_freq_var,
      mill_dia_var |-> mill_dia_var, shaft_dia_var |-> shaft_dia_var,
      motor_freq_var |-> motor_freq_var, faults |-> faults, restarts |-> restarts,
      now |-> now,
      io |-> << >>,          \* exchanges performed by the running handler
      raised |-> FALSE,      \* an exception is propagating
      operation |-> -1,      \* self.inverter.operation as set by the last get_status
      fired |-> 0 ]          \* times mill_period took its STOP branch in this handler

-----------------------------------------------------------------------------
(* Register transport: one Modbus exchange (minimalmodbus read/write) *)

\* One exchange on the bus, logged; it raises when it fails.
Exchange(s, fc, reg, val, ok) ==
    [s EXCEPT !.io = Append(@, [fc |-> fc, reg |-> reg, val |-> val, ok |-> ok]),
              !.raised = ~ok,
              !.faults = IF ok THEN @ ELSE @ + 1]

\* The outcomes of an exchange with the drive: a read succeeds or fails
\* (timeout, framing, I/O error); a write that fails may or may not have
\* reached the drive.
ReadOutcomes(s) == IF s.faults < MaxFaults THEN {"ok", "fail"} ELSE {"ok"}
Outcomes(s)     == IF s.faults < MaxFaults THEN {"ok", "fail", "fail_applied"} ELSE {"ok"}

-----------------------------------------------------------------------------
(* class TECO_E510_Inverter.  Each operator yields the set of records the   *)
(* call can end in, one per outcome of its exchanges.                       *)

get_inverter_details(s) ==
    { LET s1 == Exchange(s, FC_READ, REG_IDENTITY, 2, o = "ok")
      IN  IF s1.raised THEN s1
          ELSE [s1 EXCEPT !.inverter.model = ModelCode]
      : o \in ReadOutcomes(s) }

get_motor_parameters(s) ==
    { LET s1 == Exchange(s, FC_READ, REG_NAMEPLATE, 9, o = "ok")
      IN  IF s1.raised THEN s1
          ELSE [s1 EXCEPT !.inverter.motor_poles = s.device.motor_poles]
      : o \in ReadOutcomes(s) }

\* Variant of get_status that repeats a failed block read once before it
\* gives up.
get_status_Retry(s) ==
    UNION { LET s1 == Exchange(s, FC_READ, REG_STATUS, 7, o1 = "ok")
            IN  IF s1.raised
                THEN { Exchange(s1, FC_READ, REG_STATUS, 7, o2 = "ok")
                       : o2 \in ReadOutcomes(s1) }
                ELSE { [s1 EXCEPT !.operation = s.device.operation % 2] }
            : o1 \in ReadOutcomes(s) }

\* The block read of the seven status registers, then the read of the flag
\* word; bit 0 of the flag word is 1 while the drive runs (operation 1 or 3).
get_status(s) ==
    UNION { LET s1 == Exchange(s, FC_READ, REG_STATUS, 7, o1 = "ok")
            IN  IF s1.raised THEN {s1}
                ELSE { LET s2 == Exchange(s1, FC_READ, REG_FLAGS, 1, o2 = "ok")
                       IN  IF s2.raised THEN s2
                           ELSE [s2 EXCEPT !.operation = s.device.operation % 2]
                       : o2 \in ReadOutcomes(s1) }
            : o1 \in ReadOutcomes(s) }

\* write_register(0x2502, frequency, number_of_decimals=2): frequency is in
\* tenths of a hertz here, the register in hundredths.  A write that fails may
\* or may not have reached the drive.
set_frequency(s, frequency) ==
    { LET s1 == Exchange(s, FC_WRITE, REG_FREQUENCY, frequency * 10, o = "ok")
      IN  [s1 EXCEPT !.device.frequency = IF o = "fail" THEN @ ELSE frequency * 10]
      : o \in Outcomes(s) }

\* Variant of set_operation without the check of its argument.
set_operation_Unchecked(s, operation) ==
    { LET s1 == Exchange(s, FC_WRITE, REG_OPERATION, operation, o = "ok")
      IN  [s1 EXCEPT !.device.operation = IF o = "fail" THEN @ ELSE operation]
      : o \in Outcomes(s) }

\* if operation not in [0, 1, 2, 3]: raise ValueError, then the write
set_operation(s, operation) ==
    IF operation \notin {0, 1, 2, 3}
    THEN { [s EXCEPT !.raised = TRUE] }
    ELSE { LET s1 == Exchange(s, FC_WRITE, REG_OPERATION, operation, o = "ok")
           IN  [s1 EXCEPT !.device.operation = IF o = "fail" THEN @ ELSE operation]
           : o \in Outcomes(s) }


-----------------------------------------------------------------------------
(* class BallMillControl: the session commands and the timer *)

\* The except clause of a handler: the exception is caught and reported.
Caught(s, msg) == [s EXCEPT !.raised = FALSE, !.message_var = msg]

\* Variant of stop_motor that unlocks the widgets before the write.
stop_motor_UnlockFirst(s) ==
    IF ~s.inverter.open THEN {s}
    ELSE { IF s1.raised
           THEN Caught(s1, "ERROR on motor STOP command")
           ELSE [s1 EXCEPT !.message_var = "STOPPED. Motor stopped."]
           : s1 \in set_operation([s EXCEPT !.hour_spinbox = "normal",
                                             !.motor_forward = "normal",
                                             !.mill_edit_toggle = "normal",
                                             !.pause_button = "disabled"],
                                   s.motor_rotation_var) }

stop_motor(s) ==
    IF ~s.inverter.open THEN {s}
    ELSE { IF s1.raised
           THEN Caught(s1, "ERROR on motor STOP command")
           ELSE [s1 EXCEPT !.message_var = "STOPPED. Motor stopped.",
                           !.hour_spinbox = "normal",
                           !.motor_forward = "normal",
                           !.mill_edit_toggle = "normal",
                           !.pause_button = "disabled"]
           : s1 \in set_operation(s, s.motor_rotation_var) }

\* The widgets are locked and the globals assigned before the run command is
\* written, so all of it stays when the write raises.
run_motor(s) ==
    IF ~s.inverter.open THEN {s}
    ELSE LET s0 == [s EXCEPT !.hour_spinbox = "disabled",
                             !.motor_forward = "disabled",
                             !.mill_edit_var = FALSE,
                             !.vessel_dia_spinbox = "disabled",
                             !.mill_edit_toggle = "disabled",
                             !.pause_button = "normal",
                             !.mill_defined = TRUE,
                             !.mill_total_time = s.hour_var * 3600 + s.minute_var * 60,
                             !.mill_start_time = s.now,
                             !.mill_stop_time = s.now + s.hour_var * 3600 + s.minute_var * 60]
         IN  { IF s1.raised
               THEN Caught(s1, "ERROR on motor RUN command")
               ELSE [s1 EXCEPT !.message_var = "RUNNING"]
               : s1 \in set_operation(s0, 1 + s0.motor_rotation_var) }

pause_motor(s) ==
    IF ~s.inverter.open THEN {s}
    ELSE IF s.pause_var = "PAUSE"
    THEN { IF s1.raised
           THEN Caught(s1, "ERROR on motor PAUSE command")
           ELSE [s1 EXCEPT !.message_var = "PAUSED",
                           !.pause_var = "RESTART"]
           : s1 \in set_operation(s, s.motor_rotation_var) }
    ELSE LET s0 == [s EXCEPT !.pause_var = "PAUSE", !.restarts = @ + 1]
         IN  IF s0.time_elapsed_var = Unset \/ s0.time_remain_var = Unset
             THEN \* int('---') raises ValueError
                  { Caught(s0, "ERROR on motor PAUSE command") }
             ELSE LET s2 == [s0 EXCEPT
                               !.mill_defined = TRUE,
                               !.mill_start_time = s0.now - ParseHMS(s0.time_elapsed_var),
                               !.mill_stop_time = s0.now + ParseHMS(s0.time_remain_var)]
                  IN  { IF s1.raised
                        THEN Caught(s1, "ERROR on motor PAUSE command")
                        ELSE [s1 EXCEPT !.message_var = "RUNNING. Motor restarted after pause event."]
                        : s1 \in set_operation(s2, 1 + s2.motor_rotation_var) }

\* progress_ratio = round(progress_seconds / total_seconds, 3), in thousandths
ProgressRatio(elapsed, total) == Round(1000 * elapsed, total)

\* The else branch of mill_period: the display of a session still in progress.
\* Each strptime raises on a value str(timedelta) prints with a day part; what
\* was set before stays set.
mill_progress(s, ratio, elapsed, remaining) ==
    LET s1 == [s EXCEPT !.mill_progressbar_var = ratio]
    IN  IF ~Formattable(elapsed)
        THEN Caught(s1, "ERROR calculating mill progress")
        ELSE LET s2 == [s1 EXCEPT !.time_elapsed_var = FormatHMS(elapsed)]
             IN  IF ~Formattable(remaining)
                 THEN Caught(s2, "ERROR calculating mill progress")
                 ELSE [s2 EXCEPT !.time_remain_var = FormatHMS(remaining)]

\* Variant of the decision that lets a ratio of exactly 1 pass.
TimerExpired_Strict(ratio) == ratio > 1000

\* The automatic stop is decided on the rounded ratio.
TimerExpired(ratio) == ratio >= 1000

\* Variant of mill_period that stops the motor after the completion report.
mill_period_StopLast(s) ==
    LET elapsed   == s.now - s.mill_start_time
        remaining == (s.mill_stop_time - s.now + 1) - 1
    IN  IF s.mill_total_time = 0
        THEN { Caught(s, "ERROR calculating mill progress") }
        ELSE IF TimerExpired(ProgressRatio(elapsed, s.mill_total_time))
        THEN stop_motor([s EXCEPT !.mill_progressbar_var = 1000,
                                  !.time_elapsed_var = FormatHMS(s.mill_total_time),
                                  !.time_remain_var = FormatHMS(0),
                                  !.message_var = "STOPPED. Milling process completed.",
                                  !.fired = @ + 1])
        ELSE { mill_progress(s, ProgressRatio(elapsed, s.mill_total_time),
                             elapsed, remaining) }

\* datetime.now() carries microseconds, which the clock of the model, in whole
\* seconds, leaves out: of two readings the later one is taken to have the
\* larger sub-second part.  time_now - start_time is then `elapsed` seconds and
\* a fraction, stop_time - time_now + 1 s is `remaining` seconds and a fraction,
\* and %H:%M:%S prints the whole seconds of each.
mill_period(s) ==
    LET elapsed   == s.now - s.mill_start_time
        remaining == (s.mill_stop_time - s.now + 1) - 1
    IN  IF s.mill_total_time = 0
        THEN \* ZeroDivisionError
             { Caught(s, "ERROR calculating mill progress") }
        ELSE IF TimerExpired(ProgressRatio(elapsed, s.mill_total_time))
        THEN { [s1 EXCEPT !.mill_progressbar_var = 1000,
                          !.time_elapsed_var = FormatHMS(s.mill_total_time),
                          !.time_remain_var = FormatHMS(0),
                          !.message_var = "STOPPED. Milling process completed.",
                          !.fired = @ + 1]
               : s1 \in stop_motor(s) }
        ELSE { mill_progress(s, ProgressRatio(elapsed, s.mill_total_time),
                             elapsed, remaining) }

\* Variant of sample_data without the guard on self.inverter.
sample_data_Unguarded(s) ==
    UNION { IF s1.raised \/ s1.inverter.motor_poles <= 0
            THEN { Caught(s1, "ERROR sampling data") }
            ELSE IF s1.operation = 1
            THEN IF ~s1.mill_defined
                 THEN { Caught(s1, "ERROR sampling data") }
                 ELSE mill_period(s1)
            ELSE { s1 }
            : s1 \in get_status(s) }

\* Variant of sample_data that evaluates the timer whatever the drive reports.
sample_data_Ungated(s) ==
    IF ~s.inverter.open THEN {s}
    ELSE UNION {
           IF s1.raised \/ s1.inverter.motor_poles <= 0
           THEN { Caught(s1, "ERROR sampling data") }
           ELSE IF ~s1.mill_defined
           THEN { Caught(s1, "ERROR sampling data") }
           ELSE mill_period(s1)
           : s1 \in get_status(s) }

\* Variant of sample_data without its except clause.
sample_data_Uncaught(s) ==
    IF ~s.inverter.open THEN {s}
    ELSE UNION {
           IF s1.raised \/ s1.inverter.motor_poles <= 0
           THEN { [s1 EXCEPT !.raised = TRUE] }
           ELSE IF s1.operation = 1
           THEN IF ~s1.mill_defined
                THEN { [s1 EXCEPT !.raised = TRUE] }
                ELSE mill_period(s1)
           ELSE { s1 }
           : s1 \in get_status(s) }

\* motor_rpm = int(120 * (vfd_freq / int(self.inverter.motor_poles))) raises
\* AttributeError without a nameplate and ZeroDivisionError for 0 poles; the
\* globals of the timer raise NameError before the first Run.
sample_data(s) ==
    IF ~s.inverter.open THEN {s}
    ELSE UNION {
           IF s1.raised \/ s1.inverter.motor_poles <= 0
           THEN { Caught(s1, "ERROR sampling data") }
           ELSE IF s1.operation = 1
           THEN IF ~s1.mill_defined
                THEN { Caught(s1, "ERROR sampling data") }
                ELSE mill_period(s1)
           ELSE { s1 }
           : s1 \in get_status(s) }


-----------------------------------------------------------------------------
(* class BallMillControl: speed conversion and the frequency command *)

\* motor_maxrpm = round(120 * (vfd_maxfreq / poles)), vfd_maxfreq in tenths
MotorMaxRpm(maxfreq, poles) == Round(120 * maxfreq, 10 * poles)

\* Variant that truncates the quotient, as int() would, instead of rounding it.
ShaftFromVessel_Truncating(vessel_rpm, mill_dia, shaft_dia) ==
    { (vessel_rpm * mill_dia) \div shaft_dia }

\* shaft_rpm = round(vessel_rpm * (mill_dia / shaft_dia))
ShaftFromVessel(vessel_rpm, mill_dia, shaft_dia) ==
    Rounds(vessel_rpm * mill_dia, shaft_dia)

\* Variant that truncates the quotient instead of rounding it.
VesselFromShaft_Truncating(shaft_rpm, mill_dia, shaft_dia) ==
    { (shaft_rpm * shaft_dia) \div mill_dia }

\* round(shaft_rpm * (shaft_dia / mill_dia))
VesselFromShaft(shaft_rpm, mill_dia, shaft_dia) ==
    Rounds(shaft_rpm * shaft_dia, mill_dia)

\* Variant that rounds the frequency to whole Hz (round() without ndigits).
FrequencyFromShaft_WholeHertz(shaft_rpm, maxfreq, maxrpm) ==
    { 10 * f : f \in Rounds(shaft_rpm * maxfreq, 10 * maxrpm) }

\* round((shaft_rpm / motor_maxrpm) * vfd_maxfreq, ndigits=1), in tenths of Hz
FrequencyFromShaft(shaft_rpm, maxfreq, maxrpm) ==
    Rounds(shaft_rpm * maxfreq, maxrpm)

\* shaft_rpm = round(motor_maxrpm * (vfd_freq / vfd_maxfreq))
ShaftFromFrequency(vfd_freq, maxfreq, maxrpm) ==
    Rounds(maxrpm * vfd_freq, maxfreq)

\* Variant whose pass by frequency derives the vessel speed from the shaft
\* speed displayed before the pass.
Recompute_StaleShaft(s, maxfreq, maxrpm) ==
    CASE s.mill_radio_var = 1 ->
           UNION { { [s EXCEPT !.ctrl_spinbox = 1,
                               !.shaft_rpm_var = shaft_rpm,
                               !.vfd_freq_var = vfd_freq]
                     : vfd_freq \in FrequencyFromShaft(shaft_rpm, maxfreq, maxrpm) }
                   : shaft_rpm \in ShaftFromVessel(s.vessel_rpm_var, s.mill_dia_var,
                                                    s.shaft_dia_var) }
      [] s.mill_radio_var = 2 ->
           UNION { { [s EXCEPT !.ctrl_spinbox = 2,
                               !.vessel_rpm_var = vessel_rpm,
                               !.vfd_freq_var = vfd_freq]
                     : vfd_freq \in FrequencyFromShaft(s.shaft_rpm_var, maxfreq, maxrpm) }
                   : vessel_rpm \in VesselFromShaft(s.shaft_rpm_var, s.mill_dia_var,
                                                     s.shaft_dia_var) }
      [] s.mill_radio_var = 3 ->
           UNION { { [s EXCEPT !.ctrl_spinbox = 3,
                               !.shaft_rpm_var = shaft_rpm,
                               !.vessel_rpm_var = vessel_rpm]
                     : vessel_rpm \in VesselFromShaft(s.shaft_rpm_var, s.mill_dia_var,
                                                       s.shaft_dia_var) }
                   : shaft_rpm \in ShaftFromFrequency(s.vfd_freq_var, maxfreq, maxrpm) }
      [] OTHER -> { [s EXCEPT !.raised = TRUE] }

\* The match statement of set_drive_frequency: the quantity of the selected
\* control mode is kept and the other two are derived from it.
Recompute(s, maxfreq, maxrpm) ==
    CASE s.mill_radio_var = 1 ->
           UNION { { [s EXCEPT !.ctrl_spinbox = 1,
                               !.shaft_rpm_var = shaft_rpm,
                               !.vfd_freq_var = vfd_freq]
                     : vfd_freq \in FrequencyFromShaft(shaft_rpm, maxfreq, maxrpm) }
                   : shaft_rpm \in ShaftFromVessel(s.vessel_rpm_var, s.mill_dia_var,
                                                    s.shaft_dia_var) }
      [] s.mill_radio_var = 2 ->
           UNION { { [s EXCEPT !.ctrl_spinbox = 2,
                               !.vessel_rpm_var = vessel_rpm,
                               !.vfd_freq_var = vfd_freq]
                     : vfd_freq \in FrequencyFromShaft(s.shaft_rpm_var, maxfreq, maxrpm) }
                   : vessel_rpm \in VesselFromShaft(s.shaft_rpm_var, s.mill_dia_var,
                                                     s.shaft_dia_var) }
      [] s.mill_radio_var = 3 ->
           UNION { { [s EXCEPT !.ctrl_spinbox = 3,
                               !.shaft_rpm_var = shaft_rpm,
                               !.vessel_rpm_var = vessel_rpm]
                     : vessel_rpm \in VesselFromShaft(shaft_rpm, s.mill_dia_var,
                                                       s.shaft_dia_var) }
                   : shaft_rpm \in ShaftFromFrequency(s.vfd_freq_var, maxfreq, maxrpm) }
      [] OTHER -> { [s EXCEPT !.raised = TRUE] }

\* Variants of the range check without one of its two bounds.
FrequencyInRange_NoLowerBound(frequency, maxfreq) == frequency <= maxfreq
FrequencyInRange_NoUpperBound(frequency, maxfreq) == 0 <= frequency

\* if 0.0 <= frequency <= vfd_maxfreq
FrequencyInRange(frequency, maxfreq) == 0 <= frequency /\ frequency <= maxfreq

\* float('---') raises ValueError, a driver object without nameplate raises
\* AttributeError, 0 poles (or a synchronous speed of 0) ZeroDivisionError.
set_drive_frequency(s) ==
    IF ~s.inverter.open THEN {s}
    ELSE IF s.motor_freq_var <= 0 \/ s.inverter.motor_poles <= 0
            \/ MotorMaxRpm(s.motor_freq_var, s.inverter.motor_poles) = 0
    THEN { Caught(s, "ERROR setting VFD output frequency") }
    ELSE LET maxfreq == s.motor_freq_var
             Write(s0) ==
                 IF s0.raised
                 THEN { Caught(s0, "ERROR setting VFD output frequency") }
                 ELSE IF FrequencyInRange(s0.vfd_freq_var, maxfreq)
                 THEN { IF s1.raised
                        THEN Caught(s1, "ERROR setting VFD output frequency")
                        ELSE [s1 EXCEPT !.message_var = "VFD output frequency set"]
                        : s1 \in set_frequency(s0, s0.vfd_freq_var) }
                 ELSE { [s0 EXCEPT !.message_var = "VFD output frequency out of range"] }
         IN  UNION { Write(s0)
                     : s0 \in Recompute(s, maxfreq,
                                        MotorMaxRpm(maxfreq, s.inverter.motor_poles)) }

-----------------------------------------------------------------------------
(* class BallMillControl: connection, discovery and the polling chain *)

read_inverter_info(s) ==
    { IF s1.raised
      THEN Caught(s1, "ERROR cannot read VFD information")
      ELSE s1
      : s1 \in get_inverter_details(s) }

\* The displayed rated frequency is set before the synchronous speed is
\* computed, so it stays set when 0 poles raise ZeroDivisionError.
read_motor_info(s) ==
    { IF s1.raised
      THEN Caught(s1, "ERROR cannot read motor parameters")
      ELSE LET s2 == [s1 EXCEPT !.motor_freq_var = s1.device.motor_frequency]
           IN  IF s2.inverter.motor_poles = 0
               THEN Caught(s2, "ERROR cannot read motor parameters")
               ELSE s2
      : s1 \in get_motor_parameters(s) }

\* vessel_rpm_radio.invoke() selects control by vessel speed and runs the
\* radio button's command, set_drive_frequency.
enable_controls(s) ==
    { [s1 EXCEPT !.motor_forward = "normal", !.mill_edit_toggle = "normal"]
      : s1 \in set_drive_frequency(
                 [s EXCEPT !.run_button = "normal", !.stop_button = "normal",
                           !.hour_spinbox = "normal", !.vessel_rpm_radio = "normal",
                           !.vessel_rpm_var = DefaultVesselRpm,
                           !.mill_radio_var = 1]) }

disable_controls(s) ==
    [s EXCEPT !.run_button = "disabled", !.stop_button = "disabled",
              !.hour_spinbox = "disabled", !.vessel_rpm_radio = "disabled",
              !.ctrl_spinbox = 0, !.motor_forward = "disabled",
              !.mill_edit_toggle = "disabled"]

\* Variant of start_sampling that ends the chain after a failed cycle.
start_sampling_StopOnError(s) ==
    { IF s1.raised \/ s1.message_var = "ERROR sampling data" THEN s1
      ELSE [s1 EXCEPT !.update_task = TRUE, !.pending = @ + 1]
      : s1 \in sample_data(s) }

\* sample_data(), then one more callback is scheduled and remembered; an
\* exception that left sample_data would leave start_sampling before after().
start_sampling(s) ==
    { IF s1.raised THEN s1
      ELSE [s1 EXCEPT !.update_task = TRUE, !.pending = @ + 1]
      : s1 \in sample_data(s) }

\* after_cancel removes the one callback self.update_task names.
stop_sampling(s) ==
    IF s.update_task
    THEN [s EXCEPT !.update_task = FALSE, !.pending = @ - 1]
    ELSE s

\* ctor: whether minimalmodbus could open the serial port; the only exception
\* that reaches the except clause of connect_inverter.
connect_inverter(s, ctor) ==
    IF s.com_connect_var
    THEN IF ~ctor
         THEN { disable_controls([s EXCEPT !.message_var = "ERROR on connection to VFD",
                                           !.online_label = "OFFLINE"]) }
         ELSE UNION { UNION { UNION { UNION { start_sampling(s4)
                : s4 \in stop_motor(s3) }
                : s3 \in enable_controls(s2) }
                : s2 \in read_motor_info([s1 EXCEPT !.online_label = "ONLINE"]) }
                : s1 \in read_inverter_info([s EXCEPT !.inverter = NewInverter]) }
    ELSE { [stop_sampling(disable_controls([s EXCEPT !.inverter = None]))
              EXCEPT !.motor_freq_var = -1,
                     !.online_label = "OFFLINE",
                     !.message_var = "DISCONNECT from VFD"] }

\* The for loop of find_inverter over the ports left to try: the first port
\* whose identity read succeeds is kept.  The read on a port without a drive
\* times out.  A port that cannot be opened ("busy": in use, or no permission)
\* makes the constructor raise, and the constructor is called before the try.
RECURSIVE TryPorts(_, _)
TryPorts(s, ports) ==
    IF ports = << >> THEN { [s EXCEPT !.inverter = None] }
    ELSE IF Head(ports) = "busy"
    THEN { [s EXCEPT !.inverter = None, !.raised = TRUE] }
    ELSE UNION { IF s1.raised
                 THEN TryPorts([s1 EXCEPT !.raised = FALSE, !.inverter = None], Tail(ports))
                 ELSE { s1 }
                 : s1 \in IF Head(ports) = "drive"
                          THEN get_inverter_details([s EXCEPT !.inverter = NewInverter])
                          ELSE { [Exchange(s, FC_READ, REG_IDENTITY, 2, FALSE)
                                    EXCEPT !.faults = s.faults] } }

\* An exception of the constructor leaves find_inverter.
find_inverter(s, ports) ==
    UNION { IF s1.raised
            THEN { s1 }
            ELSE IF ~s1.inverter.open
            THEN { [s1 EXCEPT !.message_var = "ERROR no communication on any available COM port",
                              !.com_connect_toggle = "disabled"] }
            ELSE connect_inverter([s1 EXCEPT !.com_connect_var = TRUE], TRUE)
            : s1 \in TryPorts([s EXCEPT !.message_var = "Discovering"], ports) }


-----------------------------------------------------------------------------
(* The state machine *)

\* The handler op ends in the working record r.
Commit(r, op) ==
    /\ inverter' = r.inverter
    /\ device' = r.device
    /\ com_connect_var' = r.com_connect_var
    /\ com_connect_toggle' = r.com_connect_toggle
    /\ online_label' = r.online_label
    /\ update_task' = r.update_task
    /\ pending' = r.pending
    /\ run_button' = r.run_button
    /\ stop_button' = r.stop_button
    /\ pause_button' = r.pause_button
    /\ hour_spinbox' = r.hour_spinbox
    /\ motor_forward' = r.motor_forward
    /\ mill_edit_toggle' = r.mill_edit_toggle
    /\ vessel_dia_spinbox' = r.vessel_dia_spinbox
    /\ vessel_rpm_radio' = r.vessel_rpm_radio
    /\ ctrl_spinbox' = r.ctrl_spinbox
    /\ mill_edit_var' = r.mill_edit_var
    /\ pause_var' = r.pause_var
    /\ motor_rotation_var' = r.motor_rotation_var
    /\ hour_var' = r.hour_var
    /\ minute_var' = r.minute_var
    /\ mill_defined' = r.mill_defined
    /\ mill_start_time' = r.mill_start_time
    /\ mill_stop_time' = r.mill_stop_time
    /\ mill_total_time' = r.mill_total_time
    /\ time_elapsed_var' = r.time_elapsed_var
    /\ time_remain_var' = r.time_remain_var
    /\ mill_progressbar_var' = r.mill_progressbar_var
    /\ message_var' = r.message_var
    /\ mill_radio_var' = r.mill_radio_var
    /\ vessel_rpm_var' = r.vessel_rpm_var
    /\ shaft_rpm_var' = r.shaft_rpm_var
    /\ vfd_freq_var' = r.vfd_freq_var
    /\ mill_dia_var' = r.mill_dia_var
    /\ shaft_dia_var' = r.shaft_dia_var
    /\ motor_freq_var' = r.motor_freq_var
    /\ faults' = r.faults
    /\ restarts' = r.restarts
    /\ now' = r.now
    /\ event' = [op |-> op, connected |-> inverter.open, io |-> r.io, fired |-> r.fired]

\* The state after BallMillControl.__init__ (define_variables, create_widgets).
Init ==
    /\ inverter = None
    /\ device \in { [operation |-> 0, frequency |-> 0,
                     motor_frequency |-> n.motor_frequency,
                     motor_poles |-> n.motor_poles] : n \in Nameplates }
    /\ com_connect_var = FALSE
    /\ com_connect_toggle = "normal"
    /\ online_label = "OFFLINE"
    /\ update_task = FALSE
    /\ pending = 0
    /\ run_button = "disabled"
    /\ stop_button = "disabled"
    /\ pause_button = "disabled"
    /\ hour_spinbox = "disabled"
    /\ motor_forward = "disabled"
    /\ mill_edit_toggle = "disabled"
    /\ vessel_dia_spinbox = "disabled"
    /\ vessel_rpm_radio = "disabled"
    /\ ctrl_spinbox = 0
    /\ mill_edit_var = FALSE
    /\ pause_var = "PAUSE"
    /\ motor_rotation_var = 0
    /\ hour_var = DefaultHour
    /\ minute_var = DefaultMinute
    /\ mill_defined = FALSE
    /\ mill_start_time = 0
    /\ mill_stop_time = 0
    /\ mill_total_time = 0
    /\ time_elapsed_var = Unset
    /\ time_remain_var = Unset
    /\ mill_progressbar_var = 0
    /\ message_var = "---"
    /\ mill_radio_var = 0
    /\ vessel_rpm_var = 0
    /\ shaft_rpm_var = 0
    /\ vfd_freq_var = 0
    /\ mill_dia_var = DefaultMillDia
    /\ shaft_dia_var = DefaultShaftDia
    /\ motor_freq_var = -1
    /\ now = 0
    /\ event = [op |-> "init", connected |-> FALSE, io |-> << >>, fired |-> 0]
    /\ faults = 0
    /\ restarts = 0

\* Time passes between two callbacks of the event loop.
Tick ==
    \E d \in Steps :
       /\ now + d <= MaxNow
       /\ now' = now + d
       /\ UNCHANGED << inverter, device, com_connect_var, com_connect_toggle,
             online_label, update_task, pending, run_button, stop_button,
             pause_button, hour_spinbox, motor_forward, mill_edit_toggle,
             vessel_dia_spinbox, vessel_rpm_radio, ctrl_spinbox, mill_edit_var,
             pause_var, motor_rotation_var, hour_var, minute_var, mill_defined,
             mill_start_time, mill_stop_time, mill_total_time, time_elapsed_var,
             time_remain_var, mill_progressbar_var, message_var, mill_radio_var,
             vessel_rpm_var, shaft_rpm_var, vfd_freq_var, mill_dia_var,
             shaft_dia_var, motor_freq_var, event, faults, restarts >>

\* find_inverter: 100 ms after start, and the Refresh Ports button.
FindInverter ==
    \E ports \in PortLists : \E r \in find_inverter(Cur, ports) :
       /\ r.pending <= MaxPending
       /\ Commit(r, "find_inverter")

\* The Connect toggle flips its variable and runs connect_inverter.
ToggleConnect ==
    /\ com_connect_toggle = "normal"
    /\ \E ctor \in BOOLEAN :
         \E r \in connect_inverter([Cur EXCEPT !.com_connect_var = ~com_connect_var], ctor) :
            /\ r.pending <= MaxPending
            /\ Commit(r, "connect_inverter")

\* A scheduled start_sampling callback fires.
PollTick ==
    /\ pending > 0
    /\ \E r \in start_sampling([Cur EXCEPT !.pending = @ - 1]) : Commit(r, "sample_data")

RunCmd ==
    /\ run_button = "normal"
    /\ \E r \in run_motor(Cur) : Commit(r, "run_motor")

StopCmd ==
    /\ stop_button = "normal"
    /\ \E r \in stop_motor(Cur) : Commit(r, "stop_motor")

PauseCmd ==
    /\ pause_button = "normal"
    /\ pause_var = "RESTART" => restarts < MaxRestarts
    /\ \E r \in pause_motor(Cur) : Commit(r, "pause_motor")

\* The hour and minute spinboxes (set_mill_time only refreshes the total shown).
SetMillTime ==
    /\ hour_spinbox = "normal"
    /\ \E hm \in Durations :
         Commit([Cur EXCEPT !.hour_var = hm[1], !.minute_var = hm[2]], "set_mill_time")

\* The rotation radio buttons have no command.
SetRotation ==
    /\ motor_forward = "normal"
    /\ \E d \in Rotations : Commit([Cur EXCEPT !.motor_rotation_var = d], "set_rotation")

\* The Edit Parameters check button flips its variable and runs edit_mill_diameter.
edit_mill_diameter(s) ==
    [s EXCEPT !.vessel_dia_spinbox = IF s.mill_edit_var THEN "normal" ELSE "disabled"]

EditMillDiameter ==
    /\ mill_edit_toggle = "normal"
    /\ Commit(edit_mill_diameter([Cur EXCEPT !.mill_edit_var = ~mill_edit_var]),
              "edit_mill_diameter")

\* The diameter spinboxes run set_drive_frequency.  The model edits the vessel
\* diameter while it still has its initial value: repeated edits let the derived
\* speeds grow without bound.
SetGeometry ==
    /\ vessel_dia_spinbox = "normal"
    /\ mill_dia_var = DefaultMillDia
    /\ \E d \in DiaInputs :
         \E r \in set_drive_frequency([Cur EXCEPT !.mill_dia_var = d]) :
            Commit(r, "set_geometry")

\* A control-mode radio button.
SelectMode ==
    /\ vessel_rpm_radio = "normal"
    /\ \E m \in {1, 2, 3} :
         \E r \in set_drive_frequency([Cur EXCEPT !.mill_radio_var = m]) :
            Commit(r, "select_mode")

\* The enabled setpoint spinbox.
EditSetpoint ==
    \/ /\ ctrl_spinbox = 1
       /\ \E v \in VesselInputs :
            \E r \in set_drive_frequency([Cur EXCEPT !.vessel_rpm_var = v]) :
               Commit(r, "edit_setpoint")
    \/ /\ ctrl_spinbox = 2
       /\ \E v \in ShaftInputs :
            \E r \in set_drive_frequency([Cur EXCEPT !.shaft_rpm_var = v]) :
               Commit(r, "edit_setpoint")
    \/ /\ ctrl_spinbox = 3
       /\ \E v \in FreqInputs :
            \E r \in set_drive_frequency([Cur EXCEPT !.vfd_freq_var = v]) :
               Commit(r, "edit_setpoint")

Next ==
    \/ Tick
    \/ FindInverter
    \/ ToggleConnect
    \/ PollTick
    \/ RunCmd
    \/ StopCmd
    \/ PauseCmd
    \/ SetMillTime
    \/ SetRotation
    \/ EditMillDiameter
    \/ SetGeometry
    \/ SelectMode
    \/ EditSetpoint

Spec == Init /\ [][Next]_vars

\* The milling session and its timer: connecting and disconnecting, polling,
\* the session commands, the duration and the clock.
NextSession ==
    \/ Tick
    \/ ToggleConnect
    \/ PollTick
    \/ RunCmd
    \/ StopCmd
    \/ PauseCmd
    \/ SetMillTime

SpecSession == Init /\ [][NextSession]_vars

\* The frequency command: connecting and disconnecting, polling, control
\* modes, setpoints and geometry.
NextFreq ==
    \/ ToggleConnect
    \/ PollTick
    \/ EditMillDiameter
    \/ SetGeometry
    \/ SelectMode
    \/ EditSetpoint

SpecFreq == Init /\ [][NextFreq]_vars

\* The handlers that command the drive, with discovery and re-discovery and
\* the clock standing still; the control-mode buttons stand for the handler of
\* the frequency command.
NextCommands ==
    \/ FindInverter
    \/ PollTick
    \/ RunCmd
    \/ StopCmd
    \/ PauseCmd
    \/ SelectMode

SpecCommands == Init /\ [][NextCommands]_vars

\* The timer under the scheduling of the event loop: a pending callback runs,
\* time passes, and the status reads of a poll succeed again and again.
PollOk ==
    /\ pending > 0
    /\ \E r \in start_sampling([Cur EXCEPT !.pending = @ - 1]) :
          /\ \A i \in DOMAIN r.io : r.io[i].ok
          /\ Commit(r, "sample_data")

NextTimer ==
    \/ Tick
    \/ FindInverter
    \/ PollTick
    \/ RunCmd
    \/ SetMillTime

SpecTimer == Init /\ [][NextTimer]_vars /\ WF_vars(PollOk) /\ WF_vars(Tick)

-----------------------------------------------------------------------------
(* The driver on its own *)

\* The arguments of the calls: operation modes in and around 0 .. 3, and
\* frequencies in tenths of Hz.
OperationInputs == -1 .. 4

DriverFrequencies == {0, 250, 500}

\* A driver object on an open port with a drive behind it; the application
\* around it is as constructed.  Here event.op is the call as a triple: the
\* method, its argument and whether the call raised.
InitDriver ==
    /\ inverter = NewInverter
    /\ device \in { [operation |-> 0, frequency |-> 0,
                     motor_frequency |-> n.motor_frequency,
                     motor_poles |-> n.motor_poles] : n \in Nameplates }
    /\ com_connect_var = FALSE
    /\ com_connect_toggle = "normal"
    /\ online_label = "OFFLINE"
    /\ update_task = FALSE
    /\ pending = 0
    /\ run_button = "disabled"
    /\ stop_button = "disabled"
    /\ pause_button = "disabled"
    /\ hour_spinbox = "disabled"
    /\ motor_forward = "disabled"
    /\ mill_edit_toggle = "disabled"
    /\ vessel_dia_spinbox = "disabled"
    /\ vessel_rpm_radio = "disabled"
    /\ ctrl_spinbox = 0
    /\ mill_edit_var = FALSE
    /\ pause_var = "PAUSE"
    /\ motor_rotation_var = 0
    /\ hour_var = DefaultHour
    /\ minute_var = DefaultMinute
    /\ mill_defined = FALSE
    /\ mill_start_time = 0
    /\ mill_stop_time = 0
    /\ mill_total_time = 0
    /\ time_elapsed_var = Unset
    /\ time_remain_var = Unset
    /\ mill_progressbar_var = 0
    /\ message_var = "---"
    /\ mill_radio_var = 0
    /\ vessel_rpm_var = 0
    /\ shaft_rpm_var = 0
    /\ vfd_freq_var = 0
    /\ mill_dia_var = DefaultMillDia
    /\ shaft_dia_var = DefaultShaftDia
    /\ motor_freq_var = -1
    /\ now = 0
    /\ event = [op |-> << "__init__", 0, FALSE >>, connected |-> FALSE,
                io |-> << >>, fired |-> 0]
    /\ faults = 0
    /\ restarts = 0

\* The call returns or raises in r; an exception goes to the caller.
Returned(r) == [r EXCEPT !.raised = FALSE]

CallSetOperation ==
    \E operation \in OperationInputs :
       \E r \in set_operation(Cur, operation) :
          Commit(Returned(r), << "set_operation", operation, r.raised >>)

CallSetFrequency ==
    \E frequency \in DriverFrequencies :
       \E r \in set_frequency(Cur, frequency) :
          Commit(Returned(r), << "set_frequency", frequency, r.raised >>)

CallGetStatus ==
    \E r \in get_status(Cur) :
       Commit(Returned(r), << "get_status", 0, r.raised >>)

NextDriver ==
    \/ CallSetOperation
    \/ CallSetFrequency
    \/ CallGetStatus

SpecDriver == InitDriver /\ [][NextDriver]_vars

-----------------------------------------------------------------------------
(* Discovery on its own *)

\* What answers on a port, and the lists of ports get_com_ports returns, in
\* their sorted order.
PortKinds == {"drive", "empty", "busy"}

DiscoveryPortLists == UNION { [1 .. n -> PortKinds] : n \in 0 .. 3 }

\* The application as constructed, in front of the drives of the set
\* nameplates; first is the event of the construction.
Constructed(nameplates, first) ==
    /\ inverter = None
    /\ device \in { [operation |-> 0, frequency |-> 0,
                     motor_frequency |-> n.motor_frequency,
                     motor_poles |-> n.motor_poles] : n \in nameplates }
    /\ com_connect_var = FALSE
    /\ com_connect_toggle = "normal"
    /\ online_label = "OFFLINE"
    /\ update_task = FALSE
    /\ pending = 0
    /\ run_button = "disabled"
    /\ stop_button = "disabled"
    /\ pause_button = "disabled"
    /\ hour_spinbox = "disabled"
    /\ motor_forward = "disabled"
    /\ mill_edit_toggle = "disabled"
    /\ vessel_dia_spinbox = "disabled"
    /\ vessel_rpm_radio = "disabled"
    /\ ctrl_spinbox = 0
    /\ mill_edit_var = FALSE
    /\ pause_var = "PAUSE"
    /\ motor_rotation_var = 0
    /\ hour_var = DefaultHour
    /\ minute_var = DefaultMinute
    /\ mill_defined = FALSE
    /\ mill_start_time = 0
    /\ mill_stop_time = 0
    /\ mill_total_time = 0
    /\ time_elapsed_var = Unset
    /\ time_remain_var = Unset
    /\ mill_progressbar_var = 0
    /\ message_var = "---"
    /\ mill_radio_var = 0
    /\ vessel_rpm_var = 0
    /\ shaft_rpm_var = 0
    /\ vfd_freq_var = 0
    /\ mill_dia_var = DefaultMillDia
    /\ shaft_dia_var = DefaultShaftDia
    /\ motor_freq_var = -1
    /\ now = 0
    /\ event = [op |-> first, connected |-> FALSE, io |-> << >>, fired |-> 0]
    /\ faults = 0
    /\ restarts = 0

\* Here event.op is a pair: the handler and the list of ports it was given.
InitDiscovery == Constructed(Nameplates, << "__init__", << >> >>)

\* find_inverter: 100 ms after start, and the Refresh Ports button.
RefreshPorts ==
    \E ports \in DiscoveryPortLists : \E r \in find_inverter(Cur, ports) :
       /\ r.pending <= MaxPending
       /\ Commit(r, << "find_inverter", ports >>)

\* A scheduled start_sampling callback fires.
Sample ==
    /\ pending > 0
    /\ \E r \in start_sampling([Cur EXCEPT !.pending = @ - 1]) :
          Commit(r, << "sample_data", << >> >>)

NextDiscovery ==
    \/ RefreshPorts
    \/ Sample

SpecDiscovery == InitDiscovery /\ [][NextDiscovery]_vars

-----------------------------------------------------------------------------
(* The nameplate of the motor *)

\* The drive's nameplate registers: the 8-pole motor, and a drive whose pole
\* register reads 0.
PoleNameplates == Nameplates \cup {[motor_frequency |-> 500, motor_poles |-> 0]}

InitNameplate == Constructed(PoleNameplates, "init")

\* Connecting and disconnecting, polling, Run and Stop.
NextNameplate ==
    \/ ToggleConnect
    \/ PollTick
    \/ RunCmd
    \/ StopCmd

SpecNameplate == InitNameplate /\ [][NextNameplate]_vars

-----------------------------------------------------------------------------
(* The direction of rotation *)

\* Connecting and disconnecting, polling, the session commands and the
\* direction radio buttons, with the clock standing still.
NextDirection ==
    \/ ToggleConnect
    \/ PollTick
    \/ RunCmd
    \/ StopCmd
    \/ PauseCmd
    \/ SetRotation

SpecDirection == Init /\ [][NextDirection]_vars

-----------------------------------------------------------------------------
(* Sessions of the default duration *)

\* Connecting and disconnecting, the clock, polling and the session commands;
\* the duration stays at its default of two hours.
NextTwoHours ==
    \/ Tick
    \/ ToggleConnect
    \/ PollTick
    \/ RunCmd
    \/ StopCmd
    \/ PauseCmd

SpecTwoHours == Init /\ [][NextTwoHours]_vars

-----------------------------------------------------------------------------
(* Sessions of different durations *)

\* Durations of two and of three hours (hours, minutes).
LongDurations == {<<2, 0>>, <<3, 0>>}

\* The hour and minute spinboxes, as in SetMillTime.
SetLongMillTime ==
    /\ hour_spinbox = "normal"
    /\ \E hm \in LongDurations :
         Commit([Cur EXCEPT !.hour_var = hm[1], !.minute_var = hm[2]], "set_mill_time")

\* One session after another: connecting, the clock, polling, the session
\* commands and the duration.
NextSessions ==
    \/ Tick
    \/ ToggleConnect
    \/ PollTick
    \/ RunCmd
    \/ StopCmd
    \/ PauseCmd
    \/ SetLongMillTime

SpecSessions == Init /\ [][NextSessions]_vars

-----------------------------------------------------------------------------
(* The polling chains *)

\* Refresh Ports, as FindInverter, with room for one polling chain more.
Rediscover ==
    \E ports \in PortLists : \E r \in find_inverter(Cur, ports) :
       /\ r.pending <= MaxPending + 1
       /\ Commit(r, "find_inverter")

\* Discovery and re-discovery, the Connect toggle and the polls.
NextPolling ==
    \/ Rediscover
    \/ ToggleConnect
    \/ PollTick

SpecPolling == Init /\ [][NextPolling]_vars

-----------------------------------------------------------------------------
(* The speed conversions on their own *)

\* The inputs of the conversions: nameplates (rated frequency in tenths of Hz,
\* poles), geometries (vessel and shaft diameter in tenths of mm, inside the
\* ranges of their spinboxes), every vessel speed of its spinbox and every shaft
\* speed up to the synchronous speed.
ConvertNameplates ==
    { [motor_frequency |-> 500, motor_poles |-> 2],
      [motor_frequency |-> 500, motor_poles |-> 4],
      [motor_frequency |-> 500, motor_poles |-> 6],
      [motor_frequency |-> 500, motor_poles |-> 8] }

ConvertGeometries == { << 2200, 454 >>, << 500, 500 >>, << 3000, 254 >> }

MaxVesselRpm == 100

\* A connected application with a nameplate, a geometry and one setpoint drawn
\* from the inputs.
InitConvert ==
    /\ \E n \in ConvertNameplates :
          /\ device = [operation |-> 0, frequency |-> 0,
                       motor_frequency |-> n.motor_frequency,
                       motor_poles |-> n.motor_poles]
          /\ inverter = [open |-> TRUE, model |-> ModelCode,
                         motor_poles |-> n.motor_poles]
          /\ motor_freq_var = n.motor_frequency
    /\ \E g \in ConvertGeometries : mill_dia_var = g[1] /\ shaft_dia_var = g[2]
    /\ \/ /\ vessel_rpm_var \in 0 .. MaxVesselRpm
          /\ shaft_rpm_var = 0
       \/ /\ vessel_rpm_var = 0
          /\ shaft_rpm_var \in 0 .. MotorMaxRpm(motor_freq_var, inverter.motor_poles)
    /\ vfd_freq_var = 0
    /\ mill_radio_var = 0
    /\ ctrl_spinbox = 0
    /\ com_connect_var = TRUE
    /\ com_connect_toggle = "normal"
    /\ online_label = "ONLINE"
    /\ update_task = FALSE
    /\ pending = 0
    /\ run_button = "normal"
    /\ stop_button = "normal"
    /\ pause_button = "disabled"
    /\ hour_spinbox = "normal"
    /\ motor_forward = "normal"
    /\ mill_edit_toggle = "normal"
    /\ vessel_dia_spinbox = "disabled"
    /\ vessel_rpm_radio = "normal"
    /\ mill_edit_var = FALSE
    /\ pause_var = "PAUSE"
    /\ motor_rotation_var = 0
    /\ hour_var = DefaultHour
    /\ minute_var = DefaultMinute
    /\ mill_defined = FALSE
    /\ mill_start_time = 0
    /\ mill_stop_time = 0
    /\ mill_total_time = 0
    /\ time_elapsed_var = Unset
    /\ time_remain_var = Unset
    /\ mill_progressbar_var = 0
    /\ message_var = "---"
    /\ now = 0
    /\ event = [op |-> "init", connected |-> TRUE, io |-> << >>, fired |-> 0]
    /\ faults = 0
    /\ restarts = 0

\* The conversions that produced the displayed values, as far back as two
\* passes: a pass by shaft speed keeps the shaft speed a pass by vessel speed
\* has derived, and the pass after it converts what that pass has derived.
Applied(mode) ==
    CASE mode = 1 -> IF event.op = "shaft of vessel"
                     THEN "vessel of shaft of vessel" ELSE "vessel"
      [] mode = 2 -> IF event.op \in {"vessel", "vessel of shaft of vessel"}
                     THEN "shaft of vessel" ELSE "shaft"
      [] mode = 3 -> IF event.op \in {"shaft", "shaft of vessel"}
                     THEN "frequency of shaft" ELSE "frequency"

\* The results of one pass of the match statement in the control mode `mode`.
Convert(mode) ==
    Recompute([Cur EXCEPT !.mill_radio_var = mode], motor_freq_var,
              MotorMaxRpm(motor_freq_var, inverter.motor_poles))

ConvertVessel == \E r \in Convert(1) : Commit(r, Applied(1))

ConvertShaft == \E r \in Convert(2) : Commit(r, Applied(2))

ConvertFrequency == \E r \in Convert(3) : Commit(r, Applied(3))

NextConvert ==
    \/ ConvertVessel
    \/ ConvertShaft
    \/ ConvertFrequency

SpecConvert == InitConvert /\ [][NextConvert]_vars

-----------------------------------------------------------------------------
(* The session as the widgets record it *)

\* Idle: stop_motor has disabled the Pause button (it starts disabled).
Idle    == pause_button = "disabled"
\* Running: run_motor has enabled the Pause button and it reads PAUSE.
Running == pause_button = "normal" /\ pause_var = "PAUSE"
\* Paused: pause_motor has turned the button's text to RESTART.
Paused  == pause_button = "normal" /\ pause_var = "RESTART"

\* The edit locks of duration, direction and geometry.
Locks == << hour_spinbox, motor_forward, mill_edit_toggle, vessel_dia_spinbox >>

\* The drive turns: bit 0 of the operation register.
DriveRuns == device.operation % 2 = 1

\* The writes of the last handler to register reg.
WritesTo(reg) ==
    { i \in DOMAIN event.io : event.io[i].fc = FC_WRITE /\ event.io[i].reg = reg }

\* The first exchange of the handler that ends in the next state has failed.
FirstExchangeFailed == event'.io # << >> /\ ~event'.io[1].ok

\* The step is handler op, run with a driver object in place.
Handled(op) == now' = now /\ event'.op = op /\ event'.connected

-----------------------------------------------------------------------------
(* The automatic stop *)

\* C1 (as stated): connected, polled, with the status reads succeeding, a
\* session that is Running on a turning drive and has reached its stop time
\* is eventually stopped and back in Idle with editing unlocked -- unless the
\* connection is dropped or Run is pressed again.  (A poll that leaves every
\* variable as it was is a stuttering step: the polls of the code go on.)
C1_AutomaticStopArrives ==
    (inverter.open /\ pending > 0 /\ Running /\ DriveRuns /\ mill_defined
       /\ now >= mill_stop_time)
    ~> ((Idle /\ hour_spinbox = "normal" /\ motor_forward = "normal"
           /\ mill_edit_toggle = "normal")
        \/ ~inverter.open \/ event.op = "run_motor")

\* C2 (as stated): mill_period takes its STOP branch only when the elapsed
\* time has reached the configured duration.
C2_NoStopBeforeDuration ==
    [][(now' = now /\ event'.fired > 0)
         => now - mill_start_time >= mill_total_time]_vars

\* C3 (as stated): once mill_period has reported completion, no later handler
\* of the same session (none has replaced the report since) takes the STOP
\* branch again.
C3_FiresOnce ==
    [][(now' = now /\ event'.fired > 0)
         => message_var # "STOPPED. Milling process completed."]_vars

-----------------------------------------------------------------------------
(* The frequency command *)

\* C4: every value a handler writes to the frequency register lies between 0
\* and the rated frequency of the drive's motor (the register holds
\* hundredths of a hertz, the nameplate tenths), and a handler that reports
\* the frequency out of range has written nothing to that register.
C4_FrequencyWithinRated ==
    /\ \A i \in WritesTo(REG_FREQUENCY) :
          0 <= event.io[i].val /\ event.io[i].val <= 10 * device.motor_frequency
    /\ message_var = "VFD output frequency out of range"
          => WritesTo(REG_FREQUENCY) = {}

\* C4 witness: selecting a control mode has derived a frequency above the
\* rated one and the handler has rejected it without an exchange.
C4_Witness ==
    /\ event.op = "select_mode" /\ event.connected
    /\ vfd_freq_var > motor_freq_var /\ motor_freq_var > 0
    /\ message_var = "VFD output frequency out of range"
    /\ event.io = << >>

\* C5: a frequency command that reaches the range check (driver object and
\* nameplate in place) performs exactly one exchange, the write of the
\* commanded frequency, when 0 <= frequency <= rated, both ends included, and
\* otherwise performs none and reports the frequency out of range.
C5_WriteFrequency ==
    (event.op \in {"select_mode", "edit_setpoint", "set_geometry"}
       /\ event.connected /\ motor_freq_var > 0 /\ inverter.motor_poles > 0)
    => IF 0 <= vfd_freq_var /\ vfd_freq_var <= motor_freq_var
       THEN /\ Len(event.io) = 1
            /\ event.io[1].fc = FC_WRITE
            /\ event.io[1].reg = REG_FREQUENCY
            /\ event.io[1].val = 10 * vfd_freq_var
       ELSE /\ event.io = << >>
            /\ message_var = "VFD output frequency out of range"

\* C5 witness: the rated frequency itself has been entered and written.
C5_Witness ==
    /\ event.op = "edit_setpoint" /\ event.connected
    /\ vfd_freq_var = motor_freq_var
    /\ Len(event.io) = 1 /\ event.io[1].reg = REG_FREQUENCY /\ event.io[1].ok
    /\ message_var = "VFD output frequency set"

-----------------------------------------------------------------------------
(* Commands without a connection *)

\* C6: a command or a poll that starts without a driver object performs no
\* exchange.
C6_NoExchangeWhileDisconnected ==
    (event.op \in {"run_motor", "pause_motor", "stop_motor", "select_mode",
                   "edit_setpoint", "set_geometry", "sample_data"}
       /\ ~event.connected)
    => event.io = << >>

\* C6 witness: a poll callback has fired after a re-discovery found no drive.
C6_Witness ==
    event.op = "sample_data" /\ ~event.connected /\ ~inverter.open /\ pending > 0

\* C7 (as stated): Run, Pause or Stop without a driver object ends with the
\* command's error reported.
C7_NotConnectedReported ==
    (event.op \in {"run_motor", "pause_motor", "stop_motor"} /\ ~event.connected)
    => message_var \in {"ERROR on motor RUN command", "ERROR on motor PAUSE command",
                        "ERROR on motor STOP command"}

-----------------------------------------------------------------------------
(* Failed command writes *)

\* C8: when the write of the Stop button's command fails, the Pause button
\* and its text (the session), the edit locks of duration, direction and
\* geometry stay as they were, and the message is the error, not a stop.
C8_FailedStopKeepsSession ==
    [][(Handled("stop_motor") /\ FirstExchangeFailed)
         => /\ pause_button' = pause_button
            /\ pause_var' = pause_var
            /\ Locks' = Locks
            /\ message_var' = "ERROR on motor STOP command"]_vars

\* C8 witness: Stop has failed on a session that is Running and locked.
C8_Witness ==
    /\ event.op = "stop_motor" /\ event.connected
    /\ event.io # << >> /\ ~event.io[1].ok
    /\ Running /\ hour_spinbox = "disabled" /\ mill_edit_toggle = "disabled"
    /\ message_var = "ERROR on motor STOP command"

\* C9 (as stated): when the write of a Run command issued in Idle fails, the
\* Pause button, the edit locks and the start and stop times stay as they were.
C9_FailedRunKeepsSession ==
    [][(Handled("run_motor") /\ FirstExchangeFailed /\ Idle)
         => /\ pause_button' = pause_button
            /\ Locks' = Locks
            /\ mill_start_time' = mill_start_time
            /\ mill_stop_time' = mill_stop_time]_vars

\* C10 (as stated): when the write of a Pause or of a Restart fails, the
\* session, the frozen elapsed and remaining values and the start and stop
\* times stay as they were.
C10_FailedPauseKeepsSession ==
    [][(Handled("pause_motor") /\ FirstExchangeFailed)
         => /\ pause_button' = pause_button
            /\ pause_var' = pause_var
            /\ time_elapsed_var' = time_elapsed_var
            /\ time_remain_var' = time_remain_var
            /\ mill_start_time' = mill_start_time
            /\ mill_stop_time' = mill_stop_time]_vars

-----------------------------------------------------------------------------
(* The polling loop *)

\* A read of the handler that ends in the next state has failed.
ReadFailed ==
    \E i \in DOMAIN event'.io : event'.io[i].fc = FC_READ /\ ~event'.io[i].ok

\* C11: a poll whose status read fails leaves the session, the start and stop
\* times and the edit locks as they were; the failure is caught and reported
\* inside sample_data, so start_sampling goes on to schedule the next poll.
C11_FailedPollKeepsSession ==
    [][(Handled("sample_data") /\ ReadFailed)
         => /\ pause_button' = pause_button
            /\ pause_var' = pause_var
            /\ mill_start_time' = mill_start_time
            /\ mill_stop_time' = mill_stop_time
            /\ mill_total_time' = mill_total_time
            /\ Locks' = Locks
            /\ message_var' = "ERROR sampling data"
            /\ pending' = pending]_vars

\* C11 witness: a poll of a Running session has failed on its first read.
C11_Witness ==
    /\ event.op = "sample_data" /\ event.connected
    /\ event.io # << >> /\ ~event.io[1].ok /\ event.io[1].fc = FC_READ
    /\ Running /\ DriveRuns /\ hour_spinbox = "disabled"
    /\ message_var = "ERROR sampling data" /\ pending > 0

\* C12: every poll, whatever its outcome, ends with the next poll scheduled,
\* and as long as a driver object is in place a poll is pending: the chain
\* started by connect_inverter ends only with the disconnect.
C12_PollingGoesOn ==
    [][/\ (now' = now /\ event'.op = "sample_data")
            => (pending' = pending /\ update_task')
       /\ (inverter'.open => (pending' > 0 /\ update_task'))]_vars

\* C12 witness: the nameplate was not read at connect, so every cycle of this
\* connection fails after its reads (no motor_poles), and a poll is pending
\* after such a cycle.
C12_Witness ==
    /\ event.op = "sample_data" /\ event.connected /\ inverter.open
    /\ inverter.motor_poles < 0
    /\ \A i \in DOMAIN event.io : event.io[i].ok
    /\ message_var = "ERROR sampling data"
    /\ pending > 0 /\ update_task

-----------------------------------------------------------------------------
(* Pause and Restart *)

\* The handler of the step was a press of the button while it read RESTART.
RestartPressed == Handled("pause_motor") /\ Paused

\* C13: after a Restart the new stop time minus the new start time equals the
\* configured total duration within one second.
C13_RestartPreservesDuration ==
    [][RestartPressed
         => /\ mill_stop_time' - mill_start_time' <= mill_total_time' + 1
            /\ mill_stop_time' - mill_start_time' >= mill_total_time' - 1]_vars

\* What the status line reports after Run or Restart, and after Pause.
ReportsRunning ==
    message_var \in {"RUNNING", "RUNNING. Motor restarted after pause event."}

ReportsPaused == message_var = "PAUSED"

\* No exchange of the handler of the step failed.
NoExchangeFailed == \A i \in DOMAIN event'.io : event'.io[i].ok

\* The handler of the step wrote one of the values to the operation register.
WroteOperation(values) ==
    \E i \in DOMAIN event'.io :
       /\ event'.io[i].fc = FC_WRITE /\ event'.io[i].reg = REG_OPERATION
       /\ event'.io[i].val \in values

\* C14: a press of the Pause/Restart button whose exchanges succeed writes the
\* stop command (0 or 2) and makes the session Paused when the session was
\* reported Running, and writes the run command (1 or 3) and makes it Running
\* when it was reported Paused, whatever commands came before.
C14_PauseAndRestartAlternate ==
    [][(Handled("pause_motor") /\ pause_button = "normal" /\ NoExchangeFailed)
         => /\ ReportsRunning
                 => (WroteOperation({0, 2}) /\ Paused' /\ ~DriveRuns')
            /\ ReportsPaused
                 => (WroteOperation({1, 3}) /\ Running' /\ DriveRuns')]_vars

-----------------------------------------------------------------------------
(* The configuration of a session *)

\* What a session is run with: duration, direction and the two diameters.
Configuration ==
    << hour_var, minute_var, motor_rotation_var, mill_dia_var, shaft_dia_var >>

\* C15: no step changes the duration, the direction or a diameter while the
\* session is Running or Paused, and their widgets are locked in every such
\* state.
C15_ConfigurationLocked ==
    [][(Running \/ Paused)
         => /\ Configuration' = Configuration
            /\ Locks = << "disabled", "disabled", "disabled", "disabled" >>]_vars

-----------------------------------------------------------------------------
(* The speed conversions *)

\* The scenario of the specification: a motor of 50 Hz and 8 poles (750 rpm),
\* a vessel of 220 mm on a shaft of 45.4 mm, a vessel speed of 74 rpm.
Scenario ==
    /\ motor_freq_var = 500 /\ inverter.motor_poles = 8
    /\ mill_dia_var = 2200 /\ shaft_dia_var = 454
    /\ vessel_rpm_var = 74

\* The step is a pass in control by vessel speed.
ByVessel == event'.op \in {"vessel", "vessel of shaft of vessel"}

\* C17, as amended: in the scenario the pass by vessel speed yields a shaft
\* speed of 359 rpm (74 * 220 / 45.4 = 358.59) and a frequency of 23.9 Hz.
C17_ScenarioYields359 ==
    [][(ByVessel /\ Scenario) => (shaft_rpm_var' = 359 /\ vfd_freq_var' = 239)]_vars

\* C17, as stated: in the scenario the pass by vessel speed yields a shaft
\* speed of 358 rpm and a frequency of 23.9 Hz.
C17_ScenarioYields358 ==
    [][(ByVessel /\ Scenario) => (shaft_rpm_var' = 358 /\ vfd_freq_var' = 239)]_vars

C17_Witness ==
    /\ event.op = "vessel" /\ Scenario /\ ctrl_spinbox = 1
    /\ shaft_rpm_var = 359 /\ vfd_freq_var = 239

\* The step converts back the frequency that the pass before it has derived
\* from a shaft speed between 0 and the synchronous speed of the motor.
FrequencyOfShaft ==
    /\ event'.op = "frequency of shaft"
    /\ shaft_rpm_var \in 0 .. MotorMaxRpm(motor_freq_var, inverter.motor_poles)

ShaftWithinOne ==
    /\ shaft_rpm_var' <= shaft_rpm_var + 1
    /\ shaft_rpm_var' >= shaft_rpm_var - 1

\* C18, as amended: for a motor of 4 poles or more, the shaft speed derived
\* from the frequency that was derived from a shaft speed is that shaft speed
\* within 1 rpm.
C18_RoundTripFourPoles ==
    [][(FrequencyOfShaft /\ inverter.motor_poles >= 4) => ShaftWithinOne]_vars

\* C18, as stated: the same for every motor.
C18_RoundTripAnyPoles ==
    [][FrequencyOfShaft => ShaftWithinOne]_vars

C18_Witness ==
    /\ event.op = "frequency of shaft" /\ inverter.motor_poles = 4
    /\ ctrl_spinbox = 3
    /\ vfd_freq_var = 3 /\ shaft_rpm_var = 9

\* C19: the shaft speed derived from the vessel speed that was derived from a
\* shaft speed, itself derived from a vessel speed, is that shaft speed within
\* 1 rpm.
C19_VesselRoundTripStable ==
    [][event'.op = "vessel of shaft of vessel" => ShaftWithinOne]_vars

C19_Witness ==
    /\ event.op = "vessel of shaft of vessel" /\ ctrl_spinbox = 1
    /\ mill_dia_var = 3000 /\ shaft_dia_var = 254
    /\ vessel_rpm_var = 37 /\ shaft_rpm_var = 437

-----------------------------------------------------------------------------
(* The recompute pass *)

\* The step is a handler that ran the match statement of set_drive_frequency:
\* a mode radio button, a setpoint spinbox or a diameter spinbox with a driver
\* object and a nameplate in place, or a connect that has read the nameplate.
PassDone ==
    /\ now' = now
    /\ motor_freq_var' > 0 /\ inverter'.motor_poles > 0
    /\ \/ /\ event'.op \in {"select_mode", "edit_setpoint", "set_geometry"}
          /\ event'.connected
       \/ /\ event'.op = "connect_inverter"
          /\ ~event'.connected /\ inverter'.open

\* The two quantities that the control mode does not select are the conversions
\* of the one it selects, whose spinbox is the enabled one.
Consistent ==
    LET maxfreq == motor_freq_var
        maxrpm  == MotorMaxRpm(motor_freq_var, inverter.motor_poles)
    IN  /\ mill_radio_var \in {1, 2, 3}
        /\ ctrl_spinbox = mill_radio_var
        /\ mill_radio_var = 1 =>
              /\ shaft_rpm_var \in ShaftFromVessel(vessel_rpm_var, mill_dia_var, shaft_dia_var)
              /\ vfd_freq_var \in FrequencyFromShaft(shaft_rpm_var, maxfreq, maxrpm)
        /\ mill_radio_var = 2 =>
              /\ vessel_rpm_var \in VesselFromShaft(shaft_rpm_var, mill_dia_var, shaft_dia_var)
              /\ vfd_freq_var \in FrequencyFromShaft(shaft_rpm_var, maxfreq, maxrpm)
        /\ mill_radio_var = 3 =>
              /\ shaft_rpm_var \in ShaftFromFrequency(vfd_freq_var, maxfreq, maxrpm)
              /\ vessel_rpm_var \in VesselFromShaft(shaft_rpm_var, mill_dia_var, shaft_dia_var)

\* The pass leaves the quantity of its control mode as it found it: as it was
\* when a mode or a diameter was changed, as entered when a setpoint was, the
\* vessel speed that enable_controls sets on a connect.
AuthoritativeKept ==
    IF event'.op = "edit_setpoint"
    THEN /\ mill_radio_var' = 1 => vessel_rpm_var' \in VesselInputs
         /\ mill_radio_var' = 2 => shaft_rpm_var' \in ShaftInputs
         /\ mill_radio_var' = 3 => vfd_freq_var' \in FreqInputs
    ELSE IF event'.op = "connect_inverter"
    THEN mill_radio_var' = 1 /\ vessel_rpm_var' = DefaultVesselRpm
    ELSE /\ mill_radio_var' = 1 => vessel_rpm_var' = vessel_rpm_var
         /\ mill_radio_var' = 2 => shaft_rpm_var' = shaft_rpm_var
         /\ mill_radio_var' = 3 => vfd_freq_var' = vfd_freq_var

\* C20: after every recompute pass exactly one of vessel speed, shaft speed
\* and frequency is authoritative and left unchanged by the pass, and the other
\* two are its conversions.
C20_OneAuthoritativeQuantity ==
    [][PassDone => (Consistent' /\ AuthoritativeKept)]_vars

C20_Witness ==
    /\ event.op = "edit_setpoint" /\ event.connected
    /\ mill_radio_var = 2 /\ ctrl_spinbox = 2
    /\ mill_dia_var = 2200 /\ shaft_dia_var = 454
    /\ shaft_rpm_var = 300 /\ vessel_rpm_var = 62 /\ vfd_freq_var = 200

-----------------------------------------------------------------------------
(* The arguments of the driver *)

\* C21: set_operation writes its argument to the operation register, in one
\* exchange, when the argument is 0, 1, 2 or 3; for any other argument it
\* raises and performs no exchange.
C21_OperationChecked ==
    event.op[1] = "set_operation"
    => IF event.op[2] \in {0, 1, 2, 3}
       THEN /\ Len(event.io) = 1
            /\ event.io[1].fc = FC_WRITE /\ event.io[1].reg = REG_OPERATION
            /\ event.io[1].val = event.op[2]
            /\ event.op[3] = ~event.io[1].ok
       ELSE event.io = << >> /\ event.op[3]

C21_Witness ==
    /\ event.op = << "set_operation", 4, TRUE >>
    /\ event.io = << >>
    /\ device.operation = 3

-----------------------------------------------------------------------------
(* Discovery *)

\* The exchanges of a discovery that read the identity registers, and the
\* first of them that succeeded (0: none did).
IdentityReads == { i \in DOMAIN event.io : event.io[i].reg = REG_IDENTITY }

FirstSuccess ==
    IF \E i \in IdentityReads : event.io[i].ok
    THEN CHOOSE i \in IdentityReads :
            event.io[i].ok /\ \A j \in IdentityReads : event.io[j].ok => i <= j
    ELSE 0

\* C22 (as stated): discovery reads the identity on the ports in their order
\* and keeps the first port that answers, trying no port after it (the one
\* further identity read is that of the connection); when no port answers,
\* every port has been tried, the aggregate failure is reported and there is
\* no driver object.
C22_DiscoveryInOrder ==
    event.op[1] = "find_inverter"
    => LET ports == event.op[2]
           k     == FirstSuccess
       IN  IF k > 0
           THEN /\ k <= Len(ports) /\ ports[k] = "drive"
                /\ \A i \in 1 .. k : event.io[i].reg = REG_IDENTITY
                /\ Cardinality(IdentityReads) = k + 1
                /\ inverter.open
           ELSE /\ Len(event.io) = Len(ports)
                /\ IdentityReads = DOMAIN event.io
                /\ ~inverter.open
                /\ message_var = "ERROR no communication on any available COM port"

-----------------------------------------------------------------------------
(* The pole count *)

\* C23 (as stated): with a driver object whose pole count is 0 or was never
\* read, the Run button is disabled and no session is reported running.
C23_NoSessionWithoutPoles ==
    (inverter.open /\ inverter.motor_poles <= 0)
    => (run_button = "disabled" /\ ~ReportsRunning)

-----------------------------------------------------------------------------
(* The reports of completion and of a manual stop *)

\* The display of the timer.
TimerDisplay == << mill_progressbar_var, time_elapsed_var, time_remain_var >>

\* C24: a handler in which the timer expired ends with the completion report:
\* its message, progress 100 %, the configured total as elapsed time and
\* 00:00:00 remaining.  The Stop button ends with the message of the stopped
\* motor (or of the failed command) and leaves the display of the timer alone.
C24_CompletionReported ==
    [][/\ (now' = now /\ event' # event /\ event'.fired > 0)
            => /\ message_var' = "STOPPED. Milling process completed."
               /\ mill_progressbar_var' = 1000
               /\ time_elapsed_var' = FormatHMS(mill_total_time')
               /\ time_remain_var' = FormatHMS(0)
       /\ Handled("stop_motor")
            => /\ message_var' \in {"STOPPED. Motor stopped.",
                                    "ERROR on motor STOP command"}
               /\ TimerDisplay' = TimerDisplay]_vars

\* C24 witness: a poll of a two-hour session has expired the timer and has
\* reported the completion.
C24_Witness ==
    /\ event.op = "sample_data" /\ event.fired = 1
    /\ mill_total_time = 7200 /\ now = 7200
    /\ message_var = "STOPPED. Milling process completed."
    /\ time_elapsed_var = FormatHMS(7200)
    /\ mill_progressbar_var = 1000

-----------------------------------------------------------------------------
(* The stop command *)

\* The direction the drive was last commanded: bit 1 of the operation
\* register (0 forward, 2 reverse), as the run command of the session set it.
DriveDirection == 2 * ((device.operation \div 2) % 2)

\* C25 (as stated): a press of Stop in a session that is Running on a turning
\* drive, or is reported Paused, whose write succeeds, writes the stop code of
\* the direction the drive was run in, makes the session Idle and unlocks the
\* duration, the direction and the Edit Parameters toggle.
C25_StopMatchesRun ==
    [][(/\ Handled("stop_motor")
        /\ (Running /\ DriveRuns) \/ (Paused /\ ReportsPaused)
        /\ ~FirstExchangeFailed)
         => /\ Len(event'.io) = 1
            /\ event'.io[1].fc = FC_WRITE /\ event'.io[1].reg = REG_OPERATION
            /\ event'.io[1].val = DriveDirection
            /\ Idle'
            /\ hour_spinbox' = "normal" /\ motor_forward' = "normal"
            /\ mill_edit_toggle' = "normal"]_vars

-----------------------------------------------------------------------------
(* A session of no duration *)

\* C26 (as stated): a poll whose exchanges succeed, with the nameplate read,
\* in a session that was started with a duration of 00:00 and is Running on a
\* turning drive, takes the STOP branch of mill_period: the drive is stopped
\* and the session Idle.
C26_ZeroDurationStops ==
    [][(/\ Handled("sample_data") /\ NoExchangeFailed
        /\ inverter.motor_poles > 0
        /\ Running /\ DriveRuns
        /\ mill_defined /\ mill_total_time = 0)
         => (event'.fired > 0 /\ Idle' /\ ~DriveRuns')]_vars

-----------------------------------------------------------------------------
(* The timer of a paused session *)

\* The times of the session: the globals run_motor and pause_motor assign.
SessionTimes == << mill_start_time, mill_stop_time, mill_total_time >>

\* C27: a poll of a session that is Paused, its drive stopped, leaves the
\* displayed elapsed time, remaining time and progress and the times of the
\* session as they were, and does not take the STOP branch of mill_period.
C27_PausedTimerFrozen ==
    [][(Handled("sample_data") /\ Paused /\ ~DriveRuns)
         => /\ TimerDisplay' = TimerDisplay
            /\ SessionTimes' = SessionTimes
            /\ event'.fired = 0
            /\ Paused']_vars

\* C27 witness: a poll has run, its reads succeeding, on a session paused an
\* hour into its two hours, at a time the session would have been over.
C27_Witness ==
    /\ event.op = "sample_data" /\ event.connected
    /\ \A i \in DOMAIN event.io : event.io[i].ok
    /\ Paused /\ ReportsPaused /\ ~DriveRuns
    /\ mill_total_time = 7200 /\ time_elapsed_var = FormatHMS(3600)
    /\ now >= mill_stop_time

-----------------------------------------------------------------------------
(* The values of one poll *)

\* The step is a poll that evaluates the timer of a session in progress: its
\* reads succeed, the nameplate is there, the drive turns and the session has
\* a duration.
TimerEvaluated ==
    /\ Handled("sample_data") /\ NoExchangeFailed
    /\ inverter.motor_poles > 0
    /\ pause_button = "normal" /\ DriveRuns
    /\ mill_defined /\ mill_total_time > 0

\* C28 (as stated): after a poll that evaluates the timer, the displayed
\* elapsed and remaining times add up to the configured duration, and the
\* displayed progress is the displayed elapsed time over that duration.
C28_OneSampleOfNow ==
    [][TimerEvaluated
         => /\ ParseHMS(time_elapsed_var') + ParseHMS(time_remain_var')
                 = mill_total_time'
            /\ mill_progressbar_var'
                 = ProgressRatio(ParseHMS(time_elapsed_var'), mill_total_time')]_vars

-----------------------------------------------------------------------------
(* The range of the progress *)

\* C29: a poll that evaluates the timer, on a clock that does not go back,
\* reports a progress between 0 and 1 (in thousandths), and reports 1 only
\* when it takes the STOP branch of mill_period.
C29_ProgressWithinUnit ==
    [][TimerEvaluated
         => /\ 0 <= mill_progressbar_var' /\ mill_progressbar_var' <= 1000
            /\ mill_progressbar_var' = 1000 <=> event'.fired > 0]_vars

\* C29 witness: a poll 7197 s into a session of two hours has rounded the
\* ratio 0.99958 to 1, has reported it and has stopped the session.
C29_Witness ==
    /\ event.op = "sample_data" /\ event.connected /\ event.fired = 1
    /\ mill_total_time = 7200 /\ now - mill_start_time = 7197
    /\ mill_progressbar_var = 1000

-----------------------------------------------------------------------------
(* What decides the evaluation of the timer *)

\* The handler of the step has evaluated the timer: it took the STOP branch,
\* or it displays the elapsed time and the progress of this reading of the
\* clock.
TimerRecomputed ==
    \/ event'.fired > 0
    \/ /\ time_elapsed_var' = FormatHMS(now - mill_start_time)
       /\ mill_progressbar_var' = ProgressRatio(now - mill_start_time, mill_total_time)

\* C30 (as stated): a poll whose reads succeed evaluates the timer when the
\* session is Running (with a nameplate and a duration), whether the drive
\* reports run or stop, and leaves the timer alone when the session is Idle.
C30_TimerFollowsSession ==
    [][/\ (/\ Handled("sample_data") /\ NoExchangeFailed
           /\ inverter.motor_poles > 0
           /\ Running /\ mill_defined /\ mill_total_time > 0)
            => TimerRecomputed
       /\ (Handled("sample_data") /\ Idle)
            => (TimerDisplay' = TimerDisplay /\ event'.fired = 0)]_vars

-----------------------------------------------------------------------------
(* Run during a session *)

\* C31 (as stated): a press of Run in a session that is reported Running on a
\* turning drive, or reported Paused, leaves the start time, the stop time
\* and the duration of the session as they were.
C31_RunOnlyInIdle ==
    [][(/\ Handled("run_motor")
        /\ \/ Running /\ ReportsRunning /\ DriveRuns
           \/ Paused /\ ReportsPaused)
         => SessionTimes' = SessionTimes]_vars

-----------------------------------------------------------------------------
(* A running drive is supervised *)

\* C32 (as stated): whenever the drive turns, there is a driver object and a
\* polling callback is pending.
C32_RunningSupervised ==
    DriveRuns => (inverter.open /\ pending > 0)

-----------------------------------------------------------------------------
(* One polling chain *)

\* C33 (as stated): at most one start_sampling callback is pending, and none
\* after the Connect toggle has been switched off.
C33_OnePollingChain ==
    /\ pending <= 1
    /\ (event.op = "connect_inverter" /\ ~com_connect_var) => pending = 0

-----------------------------------------------------------------------------
(* The reads of a connection *)

\* C34 (as stated): when the system is online with its controls enabled and a
\* poll pending, the driver object holds the identity and the nameplate that
\* the reads of its connection returned.
C34_ConnectedMeansRead ==
    (inverter.open /\ online_label = "ONLINE" /\ run_button = "normal" /\ pending > 0)
    => (inverter.model = ModelCode /\ inverter.motor_poles # -1)

-----------------------------------------------------------------------------
(* The values a Restart resumes from *)

\* C35 (as stated): a press of Restart in a session reported Paused, whose
\* exchanges succeed, resumes the session from its own elapsed time: the
\* restart is reported, the start time moves forward by the length of the
\* pause (never back), and start and stop time are the configured duration
\* apart.
C35_RestartFromOwnPause ==
    [][(RestartPressed /\ ReportsPaused /\ NoExchangeFailed)
         => /\ message_var' = "RUNNING. Motor restarted after pause event."
            /\ mill_start_time' >= mill_start_time
            /\ mill_stop_time' - mill_start_time' = mill_total_time']_vars

-----------------------------------------------------------------------------
(* A rejected frequency *)

\* C36 (as stated): a handler that ends with the frequency reported out of
\* range leaves the quantities it derives as they were: the vessel speed
\* unless control is by vessel speed, the shaft speed unless it is by shaft
\* speed, the frequency setpoint unless it is by frequency.
C36_RejectedLeavesQuantities ==
    [][(/\ now' = now /\ event' # event /\ event'.connected
        /\ message_var' = "VFD output frequency out of range")
         => /\ ctrl_spinbox' # 1 => vessel_rpm_var' = vessel_rpm_var
            /\ ctrl_spinbox' # 2 => shaft_rpm_var' = shaft_rpm_var
            /\ ctrl_spinbox' # 3 => vfd_freq_var' = vfd_freq_var]_vars

-----------------------------------------------------------------------------
(* A stop command of the timer that fails *)

\* The stop command the step wrote to the drive failed.
StopWriteFailed ==
    \E i \in DOMAIN event'.io :
       /\ event'.io[i].fc = FC_WRITE /\ event'.io[i].reg = REG_OPERATION
       /\ event'.io[i].val % 2 = 0
       /\ ~event'.io[i].ok

\* C37 (as stated): a poll at or after the stop time of the session, in which
\* the timer has expired and whose stop command failed without reaching the
\* drive, does not report the completion and leaves the session Running.
C37_FailedStopNotCompleted ==
    [][(/\ now' = now /\ event' # event /\ event'.fired > 0
        /\ now >= mill_stop_time
        /\ StopWriteFailed /\ DriveRuns')
         => /\ message_var' # "STOPPED. Milling process completed."
            /\ Running']_vars

-----------------------------------------------------------------------------
(* The exchanges of a driver operation *)

\* The exchanges of the last call are a read of n registers at reg.
IsRead(i, reg, n) ==
    /\ event.io[i].fc = FC_READ /\ event.io[i].reg = reg /\ event.io[i].val = n

\* C38 (as stated): a call of get_status makes the block read of the seven
\* status registers and, only if that succeeded, the read of the flag word,
\* and raises exactly when its last exchange failed; a call of set_frequency
\* and a call of set_operation with an operation it accepts make exactly one
\* write, to the frequency register and to the operation register, and raise
\* exactly when that write failed.  No exchange is repeated.
C38_FixedExchanges ==
    /\ event.op[1] = "get_status"
         => /\ Len(event.io) \in {1, 2}
            /\ IsRead(1, REG_STATUS, 7)
            /\ Len(event.io) = 2 <=> event.io[1].ok
            /\ Len(event.io) = 2 => IsRead(2, REG_FLAGS, 1)
            /\ event.op[3] <=> ~event.io[Len(event.io)].ok
    /\ event.op[1] = "set_frequency"
         => /\ Len(event.io) = 1
            /\ event.io[1].fc = FC_WRITE /\ event.io[1].reg = REG_FREQUENCY
            /\ event.io[1].val = event.op[2] * 10
            /\ event.op[3] <=> ~event.io[1].ok
    /\ (event.op[1] = "set_operation" /\ event.op[2] \in {0, 1, 2, 3})
         => /\ Len(event.io) = 1
            /\ event.io[1].fc = FC_WRITE /\ event.io[1].reg = REG_OPERATION
            /\ event.io[1].val = event.op[2]
            /\ event.op[3] <=> ~event.io[1].ok

\* C38 witness: a call of get_status whose block read failed has raised after
\* that one exchange.
C38_Witness ==
    /\ event.op = << "get_status", 0, TRUE >>
    /\ Len(event.io) = 1
    /\ ~event.io[1].ok

====
